---- MODULE Spec2Model ----
(***************************************************************************)
(* Model of gr-aoa/python/aoa/switch_sync.py: the switch_sync block, whose *)
(* work() synchronises to the silent gap of a switched antenna array, bins *)
(* the samples of one frame per antenna and computes an angle-of-arrival   *)
(* vector at the end of each frame.                                        *)
(*                                                                         *)
(* A sample is a pair <<re, im>> of integers.  Arithmetic is exact: the    *)
(* samples are chosen with integral magnitudes and the antenna angles are  *)
(* whole quarter turns, so numpy's rounding is not part of the model.      *)
(* Python indices are 0-based; a TLA+ sequence holds element k at k + 1.   *)
(***************************************************************************)
EXTENDS Integers, Sequences, FiniteSets, TLC

\* ------------------------------------------------------------------ bounds
\* Total number of samples delivered to the block over all work() calls.
MaxFed == 5
\* Longest buffer of one work() call.
MaxBuf == 3

\* ------------------------------------------------------- constructor inputs
\* threshold, in the model's power units (line 77 gives the default).
threshold == 1
\* antenna_offset_deg, in quarter turns (line 81 gives the default 0.0).
antenna_offset_deg == 0
\* dwell_time and settling_time are given in ticks; this many ticks make the
\* time unit of sample_rate, so int(sample_rate * t) truncates.
TicksPerUnit == 2

SampleRates == {1, 2}
DwellTimes == {0, 1, 2, 3}
SettlingTimes == {0, 1, 2}
AntennaCounts == {1, 2, 4}

\* The sample values a buffer may hold: power 0 (below threshold), power 1
\* (exactly at threshold) and power 4 (above).
Samples == {<<0, 0>>, <<1, 0>>, <<0, 2>>}

\* ----------------------------------------------------------------- helpers
Min2(a, b) == IF a < b THEN a ELSE b
Max2(a, b) == IF a > b THEN a ELSE b
MinOf(S) == CHOOSE m \in S : \A x \in S : m <= x

\* All sequences over S of length 0..n.
SeqsUpTo(S, n) == UNION {[1..k -> S] : k \in 0..n}

\* numpy.concatenate(chunks)
RECURSIVE concatenate(_)
concatenate(chunks) ==
  IF chunks = <<>> THEN <<>> ELSE Head(chunks) \o concatenate(Tail(chunks))

\* iq.real**2 + iq.imag**2, for one sample
Power(s) == s[1] * s[1] + s[2] * s[2]

\* numpy.abs of one sample: sqrt(re^2 + im^2)
Abs(s) == CHOOSE r \in 0..Power(s) : r * r <= Power(s) /\ (r + 1) * (r + 1) > Power(s)

\* numpy.sum(numpy.abs(arr))
RECURSIVE magnitude_sum(_)
magnitude_sum(arr) ==
  IF arr = <<>> THEN 0 ELSE Abs(Head(arr)) + magnitude_sum(Tail(arr))

\* Cos with the sine's table: the two coordinates confused.
Cos_AsSin(q) == CASE q % 4 = 0 -> 0 [] q % 4 = 1 -> 1 [] q % 4 = 2 -> 0 [] OTHER -> -1

\* numpy.cos and numpy.sin of an angle given in quarter turns
Cos(q) == CASE q % 4 = 0 -> 1 [] q % 4 = 1 -> 0 [] q % 4 = 2 -> -1 [] OTHER -> 0
Sin(q) == CASE q % 4 = 0 -> 0 [] q % 4 = 1 -> 1 [] q % 4 = 2 -> 0 [] OTHER -> -1

\* ------------------------------------------------------------- the block
\* reset_arrays: one empty list of chunks per antenna
reset_arrays(max_antennas) == [i \in 0..(max_antennas - 1) |-> <<>>]

\* switch_sync.__init__, without the serial driver
Construct(sample_rate, dwell_time, max_antennas, settling_time) ==
  LET samples_per_antenna == (sample_rate * dwell_time) \div TicksPerUnit
  IN [threshold |-> threshold,
      max_antennas |-> max_antennas,
      samples_per_antenna |-> samples_per_antenna,
      settling_samp |-> (sample_rate * settling_time) \div TicksPerUnit,
      rfx_gap_threshold |-> (samples_per_antenna * 3) \div 4,
      antenna_angles |-> [i \in 0..(max_antennas - 1) |->
                            i * (4 \div max_antennas) + antenna_offset_deg],
      state |-> "SEARCH_RFX",
      counter |-> 0,
      total_sample_counter |-> 0,
      lastAOA |-> <<0, 0>>,
      antenna_data |-> reset_arrays(max_antennas)]

total_frame_size(self) == self.samples_per_antenna * self.max_antennas

\* ------------------------------------------------------------ work(): search
\* numpy.flatnonzero(power[idx:] >= self.threshold): offsets into p_view
high_indices(self, iq, idx) ==
  {k \in 0..(Len(iq) - idx - 1) : Power(iq[idx + k + 1]) >= self.threshold}

\* GapReached with > for >=.
GapReached_Strict(self, counter) == counter > self.rfx_gap_threshold

\* line 160: the silence run is long enough to be the RFX gap
GapReached(self, counter) == counter >= self.rfx_gap_threshold

\* SilenceCounter with = for +=: the run of earlier buffers is lost.
SilenceCounter_NoCarry(self, iq, idx) == Len(iq) - idx

\* SilenceCounter adding the whole buffer, not what is left of it from idx.
SilenceCounter_WholeBuffer(self, iq, idx) == self.counter + Len(iq)

\* lines 152-154: no sample of the rest of the buffer reaches the threshold
SilenceCounter(self, iq, idx) == self.counter + (Len(iq) - idx)

\* SyncIdx stepping over the rising-edge sample, as the glitch branch does.
SyncIdx_SkipEdge(idx, first_high) == idx + first_high + 1

\* lines 163-167: where scanning goes on after a valid sync
SyncIdx(idx, first_high) == idx + first_high

\* GlitchIdx staying on the rising-edge sample.
GlitchIdx_StayOnEdge(idx, first_high) == idx + first_high

\* line 171: scanning resumes right after the rising edge of a glitch
GlitchIdx(idx, first_high) == idx + first_high + 1

\* A sync that keeps the bins as the last frame left them.
SyncBins_Keep(self) == self.antenna_data

\* line 165: the bins a valid sync starts the frame with
SyncBins(self) == reset_arrays(self.max_antennas)

\* lines 146-171: one iteration of the loop in state SEARCH_RFX
SearchRfx(self, iq, idx) ==
  LET high == high_indices(self, iq, idx) IN
  IF high = {}
    THEN [self |-> [self EXCEPT !.counter = SilenceCounter(self, iq, idx)],
          idx |-> Len(iq)]
    ELSE LET first_high == MinOf(high)
             counter == self.counter + first_high
         IN IF GapReached(self, counter)
              THEN [self |-> [self EXCEPT !.state = "CAPTURE_FRAME",
                                          !.total_sample_counter = 0,
                                          !.antenna_data = SyncBins(self),
                                          !.counter = 0],
                    idx |-> SyncIdx(idx, first_high)]
              ELSE [self |-> [self EXCEPT !.counter = 0],
                    idx |-> GlitchIdx(idx, first_high)]

\* ----------------------------------------------------------- work(): capture
\* w_start without the settling samples.
w_start_NoSettling(self, i) == i * self.samples_per_antenna

\* w_start that skips the settling samples twice.
w_start_DoubleSettling(self, i) ==
  i * self.samples_per_antenna + 2 * self.settling_samp

\* line 186: first frame position of antenna i's window that is binned
w_start(self, i) == i * self.samples_per_antenna + self.settling_samp
\* w_end one sample late: the window runs into the next antenna's.
w_end_Overlap(self, i) == (i + 1) * self.samples_per_antenna + 1

\* line 187
w_end(self, i) == (i + 1) * self.samples_per_antenna

\* lines 185-195: the chunk, which starts at frame position start_frame_idx,
\* is cut along the antenna windows and each piece appended to its bin
Distribute(self, bins, chunk, start_frame_idx) ==
  [i \in 0..(self.max_antennas - 1) |->
     LET istart == Max2(start_frame_idx, w_start(self, i))
         iend == Min2(start_frame_idx + Len(chunk), w_end(self, i))
     IN IF istart < iend
          THEN Append(bins[i], SubSeq(chunk, istart - start_frame_idx + 1,
                                             iend - start_frame_idx))
          ELSE bins[i]]

\* lines 209-214
raw_arrays(self) == [i \in 0..(self.max_antennas - 1) |-> concatenate(self.antenna_data[i])]

\* line 216: some antenna has no sample
AnyEmpty(self) == \E i \in 0..(self.max_antennas - 1) : Len(raw_arrays(self)[i]) = 0

\* lines 219-226: sum over the antennas of magnitude_sum * f(angle)
RECURSIVE VectorSum(_, _, _)
VectorSum(self, i, xy) ==
  IF i >= self.max_antennas THEN xy
  ELSE LET m == magnitude_sum(raw_arrays(self)[i])
       IN VectorSum(self, i + 1, <<xy[1] + m * Cos(self.antenna_angles[i]),
                                   xy[2] + m * Sin(self.antenna_angles[i])>>)

\* calculate_aoa summing on top of the estimate already held.
calculate_aoa_Accumulate(self) ==
  IF AnyEmpty(self) THEN self
  ELSE [self EXCEPT !.lastAOA = VectorSum(self, 0, self.lastAOA)]

\* lines 207-228
calculate_aoa(self) ==
  IF AnyEmpty(self) THEN self
  ELSE [self EXCEPT !.lastAOA = VectorSum(self, 0, <<0, 0>>)]

\* n_process without the frame's remainder: the chunk runs past the frame.
n_process_IgnoreFrame(self, iq, idx) == Len(iq) - idx

\* line 178
n_process(self, iq, idx) ==
  Min2(total_frame_size(self) - self.total_sample_counter, Len(iq) - idx)

\* FrameComplete as soon as anything was captured.
FrameComplete_Partial(self) == self.total_sample_counter > 0

\* line 200: the frame is complete
FrameComplete(self) == self.total_sample_counter >= total_frame_size(self)

\* lines 180-198: the chunk is binned and the counters advance
CaptureChunk(self, iq, idx) ==
  LET n == n_process(self, iq, idx) IN
  IF n > 0
    THEN [self EXCEPT !.antenna_data =
                         Distribute(self, self.antenna_data,
                                    SubSeq(iq, idx + 1, idx + n),
                                    self.total_sample_counter),
                      !.total_sample_counter = @ + n]
    ELSE self

\* CompleteFrame without the return to SEARCH_RFX.
CompleteFrame_StayCapturing(self) == [calculate_aoa(self) EXCEPT !.counter = 0]

\* CompleteFrame that also sets the frame-position counter back to zero.
CompleteFrame_ResetsPosition(self) ==
  [calculate_aoa(self) EXCEPT !.state = "SEARCH_RFX", !.counter = 0,
                              !.total_sample_counter = 0]

\* lines 200-203
CompleteFrame(self) ==
  [calculate_aoa(self) EXCEPT !.state = "SEARCH_RFX", !.counter = 0]

\* lines 174-203: one iteration of the loop in state CAPTURE_FRAME
CaptureFrame(self, iq, idx) ==
  LET n == n_process(self, iq, idx)
      captured == CaptureChunk(self, iq, idx)
  IN [self |-> IF FrameComplete(captured) THEN CompleteFrame(captured) ELSE captured,
      idx |-> IF n > 0 THEN idx + n ELSE idx]

\* lines 143-203: the body of the while loop
LoopBody(self, iq, idx) ==
  IF self.state = "SEARCH_RFX" THEN SearchRfx(self, iq, idx)
  ELSE CaptureFrame(self, iq, idx)

\* lines 142-205: the loop of one work() call run to its end; fuel bounds the
\* number of iterations evaluated
RECURSIVE RunWork(_, _, _, _)
RunWork(self, iq, idx, fuel) ==
  IF idx >= Len(iq) \/ fuel = 0 THEN self
  ELSE LET r == LoopBody(self, iq, idx) IN RunWork(r.self, iq, r.idx, fuel - 1)

\* ------------------------------------------------------------ state machine
VARIABLES
  self,         \* the switch_sync object's fields
  pc,           \* "idle": between work() calls; "loop": inside the while loop
  iq,           \* input_items[0] of the current call
  out,          \* output_items[0] of the current call
  idx,          \* the loop's position in iq (0-based)
  fed,          \* history: every sample delivered so far, in stream order
  log,          \* history: sync, glitch and frame-completion events
  held,         \* history: per sample consumed in this call, the estimate held then
  antenna_pos,  \* history: the frame positions of the samples in antenna_data
  arduino       \* self.arduino: the ArduinoSwitcherDriver and its serial port

vars == <<self, pc, iq, out, idx, fed, log, held, antenna_pos, arduino>>

\* The log stops growing here; only a call that never returns gets this far.
LogCap == 2 * MaxFed + 2

\* Stream index of iq[0], and the number of stream samples consumed so far.
Base == Len(fed) - Len(iq)
Consumed == Base + idx

Event(ev, at, p) == [ev |-> ev, at |-> at, p |-> p]

\* lines 102-103: serial_port = "" (the default) leaves self.arduino = None
NoDriver ==
  [ser |-> "None", pc |-> "none", caller |-> "", cmd |-> "", wire |-> <<>>,
   io |-> <<>>, escaped |-> {}]

\* lines 90-99, 109-122: the block's own fields and the call's locals
InitBlock ==
  /\ \E sample_rate \in SampleRates, dwell_time \in DwellTimes,
        max_antennas \in AntennaCounts, settling_time \in SettlingTimes :
       /\ self = Construct(sample_rate, dwell_time, max_antennas, settling_time)
       /\ antenna_pos = reset_arrays(max_antennas)
  /\ pc = "idle"
  /\ iq = <<>>
  /\ out = <<>>
  /\ idx = 0
  /\ fed = <<>>
  /\ log = <<>>
  /\ held = <<>>

\* switch_sync.__init__ with serial_port = ""
Init ==
  /\ InitBlock
  /\ arduino = NoDriver

\* lines 132-142: work() is entered with a buffer; out[:] = self.lastAOA
WorkCall ==
  /\ pc = "idle"
  /\ \E buf \in SeqsUpTo(Samples, MaxBuf) :
       /\ Len(fed) + Len(buf) <= MaxFed
       /\ iq' = buf
       /\ out' = [j \in 1..Len(buf) |-> self.lastAOA]
       /\ fed' = fed \o buf
  /\ idx' = 0
  /\ pc' = "loop"
  /\ held' = <<>>
  /\ UNCHANGED <<self, log, antenna_pos, arduino>>

\* One iteration of the while loop, with the events it produces.
Iterate(events) ==
  LET r == LoopBody(self, iq, idx) IN
  /\ pc = "loop"
  /\ idx < Len(iq)
  /\ self' = r.self
  /\ idx' = r.idx
  /\ held' = held \o [j \in 1..(r.idx - idx) |-> self.lastAOA]
  /\ log' = IF Len(log) + Len(events) <= LogCap THEN log \o events ELSE log
  /\ UNCHANGED <<pc, iq, out, fed, arduino>>

\* lines 151-154
SearchSilence ==
  /\ self.state = "SEARCH_RFX"
  /\ high_indices(self, iq, idx) = {}
  /\ Iterate(<<>>)
  /\ UNCHANGED antenna_pos

\* lines 160-167
SearchSync ==
  /\ self.state = "SEARCH_RFX"
  /\ high_indices(self, iq, idx) # {}
  /\ LET first_high == MinOf(high_indices(self, iq, idx)) IN
       /\ GapReached(self, self.counter + first_high)
       /\ Iterate(<<Event("sync", Consumed + first_high, 0)>>)
  /\ antenna_pos' = reset_arrays(self.max_antennas)

\* lines 168-171
SearchGlitch ==
  /\ self.state = "SEARCH_RFX"
  /\ high_indices(self, iq, idx) # {}
  /\ LET first_high == MinOf(high_indices(self, iq, idx)) IN
       /\ ~GapReached(self, self.counter + first_high)
       /\ Iterate(<<Event("glitch", Consumed + first_high, 0)>>)
  /\ UNCHANGED antenna_pos

\* The frame positions of the chunk that CaptureChunk bins.
PosChunk(n) == [j \in 1..n |-> self.total_sample_counter + j - 1]

\* lines 174-198, the frame still incomplete after the chunk
CaptureMid ==
  /\ self.state = "CAPTURE_FRAME"
  /\ ~FrameComplete(CaptureChunk(self, iq, idx))
  /\ Iterate(<<>>)
  /\ antenna_pos' = Distribute(self, antenna_pos, PosChunk(n_process(self, iq, idx)),
                               self.total_sample_counter)

\* lines 174-203, the chunk completes the frame: calculate_aoa, back to search
CaptureComplete ==
  /\ self.state = "CAPTURE_FRAME"
  /\ LET n == n_process(self, iq, idx)
         captured == CaptureChunk(self, iq, idx)
     IN /\ FrameComplete(captured)
        /\ Iterate(<<Event(IF AnyEmpty(captured) THEN "skip" ELSE "aoa",
                           Consumed + Max2(n, 0), captured.total_sample_counter)>>)
        /\ antenna_pos' = IF n > 0
                            THEN Distribute(self, antenna_pos, PosChunk(n),
                                            self.total_sample_counter)
                            ELSE antenna_pos

\* line 205: the loop is over and work() returns len(out)
WorkReturn ==
  /\ pc = "loop"
  /\ idx >= Len(iq)
  /\ pc' = "idle"
  /\ iq' = <<>>
  /\ out' = <<>>
  /\ idx' = 0
  /\ held' = <<>>
  /\ UNCHANGED <<self, fed, log, antenna_pos, arduino>>

Next ==
  \/ WorkCall
  \/ SearchSilence
  \/ SearchSync
  \/ SearchGlitch
  \/ CaptureMid
  \/ CaptureComplete
  \/ WorkReturn

Spec == Init /\ [][Next]_vars

\* ---------------------------------------------------- ArduinoSwitcherDriver
\* The block is built with a serial port: the driver connects, the constructor
\* sends T<microseconds> and CYCLE, and stop() closes the driver.  Every call
\* on the serial port may succeed or raise, as the port decides.  The work()
\* path never touches the driver, so the block's own variables stay put here.
block_vars == <<self, pc, iq, out, idx, fed, log, held, antenna_pos>>

\* line 104: ArduinoSwitcherDriver(serial_port, baud_rate), before _connect
NewDriver ==
  [ser |-> "None", pc |-> "connect", caller |-> "", cmd |-> "", wire |-> <<>>,
   io |-> <<>>, escaped |-> {}]

\* The serial call's outcome is recorded in the driver's history.
Did(a, what) == [a EXCEPT !.io = Append(@, what)]

\* lines 50-57: set_dwell_time, start_cycle, stop_cycle enter send_command
send_command(a, caller, cmd) == [a EXCEPT !.pc = "check", !.caller = caller, !.cmd = cmd]

\* lines 63-65: close() swallows what stop_cycle raises and goes on to
\* self.ser.close()
CloseCatches(a) == [a EXCEPT !.pc = "ser_close"]

\* send_command is over; raised says whether an exception leaves it.  In the
\* constructor (lines 106-107) CYCLE follows T and an exception leaves
\* __init__ too; in close() (lines 61-65) self.ser.close() follows either way.
AfterSend(a, raised) ==
  LET b == IF raised THEN [a EXCEPT !.escaped = @ \cup {"send_command"}] ELSE a IN
  IF a.caller = "init"
    THEN IF raised
           THEN [b EXCEPT !.pc = "raised", !.escaped = @ \cup {"__init__"}]
           ELSE IF a.cmd = "T" THEN send_command(b, "init", "CYCLE")
                ELSE [b EXCEPT !.pc = "ready"]
    ELSE CloseCatches(b)

\* lines 23-32: _connect; a failure to open is caught and leaves ser = None
Connect ==
  /\ arduino.pc = "connect"
  /\ \/ arduino' = send_command(Did([arduino EXCEPT !.ser = "open"], "open"), "init", "T")
     \/ arduino' = send_command(Did(arduino, "open!"), "init", "T")
  /\ UNCHANGED block_vars

\* line 35: if self.ser and self.ser.is_open
CheckOpen ==
  /\ arduino.pc = "check"
  /\ arduino' = IF arduino.ser = "open" THEN [arduino EXCEPT !.pc = "reset"]
                ELSE AfterSend(arduino, FALSE)
  /\ UNCHANGED block_vars

\* line 36: self.ser.reset_input_buffer(), before the try of line 38
ResetInputBuffer ==
  /\ arduino.pc = "reset"
  /\ \/ arduino' = [Did(arduino, "reset") EXCEPT !.pc = "write"]
     \/ arduino' = AfterSend(Did(arduino, "reset!"), TRUE)
  /\ UNCHANGED block_vars

\* line 39: self.ser.write, inside the try
Write ==
  /\ arduino.pc = "write"
  /\ \/ arduino' = [Did(arduino, "write") EXCEPT !.pc = "readline",
                                                !.wire = Append(@, arduino.cmd)]
     \/ arduino' = AfterSend(Did(arduino, "write!"), FALSE)
  /\ UNCHANGED block_vars

\* lines 40-42: self.ser.readline(): a line, nothing within the timeout, or
\* an exception
Readline ==
  /\ arduino.pc = "readline"
  /\ \/ arduino' = [Did(arduino, "line") EXCEPT !.pc = "decode"]
     \/ arduino' = AfterSend(Did(arduino, "timeout"), FALSE)
     \/ arduino' = AfterSend(Did(arduino, "readline!"), FALSE)
  /\ UNCHANGED block_vars

\* lines 43-46: decode and compare with "<cmd> set"; a mismatch only warns
Decode ==
  /\ arduino.pc = "decode"
  /\ \/ arduino' = AfterSend(Did(arduino, "ack"), FALSE)
     \/ arduino' = AfterSend(Did(arduino, "mismatch"), FALSE)
     \/ arduino' = AfterSend(Did(arduino, "decode!"), FALSE)
  /\ UNCHANGED block_vars

\* lines 124-127 and 59-62: stop() calls close(), which sends RFX if there is
\* a port
Stop ==
  /\ arduino.pc = "ready"
  /\ arduino' = IF arduino.ser # "None" THEN send_command(arduino, "close", "RFX")
                ELSE [arduino EXCEPT !.pc = "stopped"]
  /\ UNCHANGED block_vars

\* line 65: self.ser.close(), outside the try; when it raises, the exception
\* leaves close() and stop()
SerClose ==
  /\ arduino.pc = "ser_close"
  /\ \/ arduino' = [Did(arduino, "close") EXCEPT !.pc = "stopped", !.ser = "closed"]
     \/ arduino' = [Did(arduino, "close!") EXCEPT !.pc = "raised",
                                                  !.escaped = @ \cup {"close", "stop"}]
  /\ UNCHANGED block_vars

\* switch_sync.__init__ with a serial port, at line 104
InitSerial ==
  /\ InitBlock
  /\ arduino = NewDriver

NextSerial ==
  \/ Connect
  \/ CheckOpen
  \/ ResetInputBuffer
  \/ Write
  \/ Readline
  \/ Decode
  \/ Stop
  \/ SerClose

SpecSerial == InitSerial /\ [][NextSerial]_vars

\* ------------------------------------------------------- notions of the claims
IsHigh(s) == Power(s) >= self.threshold
FrameSize == total_frame_size(self)
GapThreshold == self.rfx_gap_threshold
Antennas == 0..(self.max_antennas - 1)

\* The sample at stream index k (0-based).
StreamAt(k) == fed[k + 1]

\* What a work() call leaves behind: the state, both counters, the held
\* estimate and each bin as one concatenated sequence.
FinalState(s) ==
  [state |-> s.state,
   counter |-> s.counter,
   total_sample_counter |-> s.total_sample_counter,
   lastAOA |-> s.lastAOA,
   bins |-> raw_arrays(s)]

\* The block as the constructor left it.
InitialOf(s) ==
  [s EXCEPT !.state = "SEARCH_RFX", !.counter = 0, !.total_sample_counter = 0,
            !.lastAOA = <<0, 0>>, !.antenna_data = reset_arrays(s.max_antennas)]

\* One work() call on the whole of buf.
OneBuffer(s, buf) == RunWork(s, buf, 0, 2 * Len(buf) + 1)

\* C1: chunking invariance.  Between calls, the block that received the stream
\* in the buffers the calls delivered is in the same final state as a block
\* that receives the same stream in one buffer, from the constructed state
\* (k = 0) and from the state reached after any prefix of the stream.
C1_ChunkingInvariance ==
  pc = "idle" =>
    \A k \in 0..Len(fed) :
      FinalState(self) =
        FinalState(OneBuffer(OneBuffer(InitialOf(self), SubSeq(fed, 1, k)),
                             SubSeq(fed, k + 1, Len(fed))))

\* C1's case: a stream longer than any one buffer, delivered in several calls,
\* with a frame completed and the next one left open across a call boundary.
C1_Witness ==
  /\ pc = "idle"
  /\ Len(fed) > MaxBuf
  /\ self.state = "CAPTURE_FRAME"
  /\ self.total_sample_counter >= 1
  /\ self.lastAOA # <<0, 0>>

\* The stream delivered so far is a prefix of: exactly gap_threshold samples
\* below threshold, then frame_size samples at or above it.
C2_Stream ==
  /\ self.samples_per_antenna >= 1
  /\ self.settling_samp < self.samples_per_antenna
  /\ Len(fed) <= GapThreshold + FrameSize
  /\ \A k \in 0..(Len(fed) - 1) : IsHigh(StreamAt(k)) <=> k >= GapThreshold

\* C2: on that stream, under any chunking, the only sync is at stream index
\* gap_threshold with frame position 0, the frame's samples are counted from
\* it, and the only estimate is written when the frame_size-th is consumed.
C2_SyncOnceAoaOnce ==
  C2_Stream =>
    LET sync == Event("sync", GapThreshold, 0)
        aoa == Event("aoa", GapThreshold + FrameSize, FrameSize)
    IN /\ Consumed < GapThreshold => log = <<>>
       /\ Consumed = GapThreshold => log \in {<<>>, <<sync>>}
       /\ (Consumed > GapThreshold /\ Consumed < GapThreshold + FrameSize) =>
            /\ log = <<sync>>
            /\ self.state = "CAPTURE_FRAME"
            /\ self.total_sample_counter = Consumed - GapThreshold
       /\ Consumed = GapThreshold + FrameSize =>
            /\ log = <<sync, aoa>>
            /\ self.state = "SEARCH_RFX"
       /\ Consumed < GapThreshold + FrameSize => self.lastAOA = <<0, 0>>

\* C2's case: the whole stream consumed, over more than one call, the gap not
\* empty and more than one antenna.
C2_Witness ==
  /\ C2_Stream
  /\ pc = "idle"
  /\ Len(fed) = GapThreshold + FrameSize
  /\ GapThreshold >= 1
  /\ self.max_antennas >= 2
  /\ Len(fed) > MaxBuf

\* Where the search that log entry n belongs to started: after the latest
\* frame completion before it, or at the start of the stream.
SearchStart(n) ==
  LET done == {m \in 1..(n - 1) : log[m].ev \in {"aoa", "skip"}}
  IN IF done = {} THEN 0 ELSE log[CHOOSE m \in done : \A x \in done : x <= m].at

\* The number of consecutive below-threshold samples right before stream
\* index at, counted back to the search start or the last sample at or above
\* threshold.
SilenceRun(at, start) ==
  LET highs == {k \in start..(at - 1) : IsHigh(StreamAt(k))}
  IN IF highs = {} THEN at - start
     ELSE at - 1 - (CHOOSE k \in highs : \A x \in highs : x <= k)

\* C3: gap boundary.  Every sample at or above threshold met while searching
\* synchronises exactly when its silence run is gap_threshold or longer; a run
\* of gap_threshold - 1 does not.
C3_GapBoundary ==
  \A n \in DOMAIN log :
    /\ log[n].ev = "sync" => SilenceRun(log[n].at, SearchStart(n)) >= GapThreshold
    /\ log[n].ev = "glitch" => SilenceRun(log[n].at, SearchStart(n)) < GapThreshold

\* C3's case: an edge after gap_threshold - 1 silent samples that did not
\* synchronise, and a later edge after gap_threshold that did.
C3_Witness ==
  /\ GapThreshold >= 2
  /\ \E n \in DOMAIN log :
       /\ log[n].ev = "glitch"
       /\ SilenceRun(log[n].at, SearchStart(n)) = GapThreshold - 1
  /\ \E n \in DOMAIN log :
       /\ log[n].ev = "sync"
       /\ SilenceRun(log[n].at, SearchStart(n)) = GapThreshold

\* The stream index of the latest sync.
LastSyncAt ==
  LET syncs == {m \in DOMAIN log : log[m].ev = "sync"}
  IN log[CHOOSE m \in syncs : \A x \in syncs : x <= m].at

\* A frame position inside the settling window of some antenna.
InSettling(q) ==
  \E a \in Antennas :
    /\ a * self.samples_per_antenna <= q
    /\ q < a * self.samples_per_antenna + self.settling_samp

\* C4: settling exclusion.  The samples in the bins are the stream samples at
\* the frame positions recorded for them, and none of those positions lies in
\* the settling window of any antenna.
C4_SettlingExclusion ==
  \A i \in Antennas :
    LET pos == concatenate(antenna_pos[i])
        dat == raw_arrays(self)[i]
    IN /\ Len(pos) = Len(dat)
       /\ \A k \in DOMAIN pos :
            /\ ~InSettling(pos[k])
            /\ Len(log) < LogCap => dat[k] = StreamAt(LastSyncAt + pos[k])

\* C4's case: a whole frame binned over several calls, with a settling window
\* and more than one antenna.
C4_Witness ==
  /\ self.settling_samp >= 1
  /\ self.max_antennas >= 2
  /\ FrameSize > MaxBuf
  /\ self.total_sample_counter = FrameSize
  /\ \A i \in Antennas : raw_arrays(self)[i] # <<>>

\* C5: empty-bin frame.  A capture step that completes a frame with an empty
\* bin leaves the estimate as it was, returns to SEARCH_RFX with the silence
\* counter at zero and stays in the loop with the chunk consumed.
C5_EmptyBinFrame ==
  [][(/\ pc = "loop"
      /\ idx < Len(iq)
      /\ self.state = "CAPTURE_FRAME"
      /\ self'.total_sample_counter >= FrameSize
      /\ \E i \in Antennas : raw_arrays(self')[i] = <<>>)
     => /\ self'.lastAOA = self.lastAOA
        /\ self'.state = "SEARCH_RFX"
        /\ self'.counter = 0
        /\ pc' = "loop"
        /\ idx' = idx + (FrameSize - self.total_sample_counter)
        /\ idx' <= Len(iq)]_vars

\* C5's case: a frame of at least one sample was discarded for an empty bin
\* and a later sample of the stream has been consumed.
C5_Witness ==
  /\ self.samples_per_antenna >= 1
  /\ \E n \in DOMAIN log : log[n].ev = "skip" /\ Consumed > log[n].at

\* C6: output stage.  Every output sample is the estimate the block held when
\* the input sample of the same index was consumed.
C6_OutputIsHeldEstimate ==
  \A j \in DOMAIN held : out[j] = held[j]

\* C7: zero-order hold.  The held estimate changes only in a capture step that
\* consumes the last sample of a frame and leaves every bin non-empty.
C7_ZeroOrderHold ==
  [][self'.lastAOA # self.lastAOA =>
       /\ pc = "loop"
       /\ idx < Len(iq)
       /\ self.state = "CAPTURE_FRAME"
       /\ self'.state = "SEARCH_RFX"
       /\ self'.total_sample_counter = FrameSize
       /\ idx' > idx
       /\ idx' - idx = FrameSize - self.total_sample_counter
       /\ \A i \in Antennas : raw_arrays(self')[i] # <<>>]_vars

\* C7's case: an estimate was written and then held while later samples were
\* consumed.
C7_Witness ==
  /\ self.lastAOA # <<0, 0>>
  /\ \E n \in DOMAIN log : log[n].ev = "aoa" /\ Consumed > log[n].at
  /\ \E n \in DOMAIN log : log[n].ev = "skip" \/ log[n].ev = "glitch"

\* C8: whole frames.  calculate_aoa runs only with the frame-position counter
\* at frame_size, frame_size stream samples after the sync that opened the
\* frame and with no other event in between; while capturing, the samples
\* consumed since that sync are exactly the frame positions counted.
C8_WholeFrame ==
  /\ \A n \in DOMAIN log :
       log[n].ev \in {"aoa", "skip"} =>
         /\ n > 1
         /\ log[n - 1].ev = "sync"
         /\ log[n].p = FrameSize
         /\ log[n].at = log[n - 1].at + FrameSize
  /\ (self.state = "CAPTURE_FRAME" /\ Len(log) < LogCap) =>
       /\ log # <<>>
       /\ log[Len(log)].ev = "sync"
       /\ Consumed = log[Len(log)].at + self.total_sample_counter
       /\ self.total_sample_counter <= FrameSize

\* C8's case: a frame longer than any buffer, completed over several calls,
\* with a sample below threshold inside it.
C8_Witness ==
  /\ FrameSize > MaxBuf
  /\ \E n \in DOMAIN log :
       /\ log[n].ev = "aoa"
       /\ \E k \in 1..(FrameSize - 1) : ~IsHigh(StreamAt(log[n].at - FrameSize + k))

\* C9: every iteration of the loop makes progress: it consumes a sample, or it
\* is the sync that hands the sample it stands on to the capture.
C9_EachIterationProgresses ==
  [][(pc = "loop" /\ pc' = "loop") =>
       2 * (Len(iq) - idx') + (IF self'.state = "SEARCH_RFX" THEN 1 ELSE 0)
         < 2 * (Len(iq) - idx) + (IF self.state = "SEARCH_RFX" THEN 1 ELSE 0)]_vars

\* The bins still hold the frame of the latest written estimate.
FrameHeld ==
  \E n \in DOMAIN log :
    /\ log[n].ev = "aoa"
    /\ \A m \in (n + 1)..Len(log) : log[m].ev = "glitch"

\* Antenna i's magnitude sum.
M(i) == magnitude_sum(raw_arrays(self)[i])

\* C10: with four antennas at 0, 90, 180 and 270 degrees the estimate written
\* for magnitude sums m0..m3 is (m0 - m2, m1 - m3).
C10_FourAntennaVector ==
  (self.max_antennas = 4 /\ FrameHeld) =>
    self.lastAOA = <<M(0) - M(2), M(1) - M(3)>>

\* C10's case: m0 = 2M and m1 = m2 = m3 = M > 0 give (M, 0).
C10_Witness ==
  /\ self.max_antennas = 4
  /\ FrameHeld
  /\ M(1) >= 1
  /\ M(2) = M(1)
  /\ M(3) = M(1)
  /\ M(0) = 2 * M(1)
  /\ self.lastAOA = <<M(1), 0>>

\* The sum of the magnitudes of the stream samples at indices from..(to - 1).
RECURSIVE StreamMagnitude(_, _)
StreamMagnitude(from, to) ==
  IF from >= to THEN 0 ELSE Abs(StreamAt(from)) + StreamMagnitude(from + 1, to)

\* The vector sum over antennas i..max_antennas-1 of a frame that starts at
\* stream index start: a function of the frame's samples and the angles only.
RECURSIVE FrameVector(_, _)
FrameVector(start, i) ==
  IF i >= self.max_antennas THEN <<0, 0>>
  ELSE LET m == StreamMagnitude(
                  start + i * self.samples_per_antenna + self.settling_samp,
                  start + (i + 1) * self.samples_per_antenna)
           rest == FrameVector(start, i + 1)
       IN <<m * Cos(self.antenna_angles[i]) + rest[1],
            m * Sin(self.antenna_angles[i]) + rest[2]>>

\* The log entries of written estimates whose frame the bins still hold.
HeldFrames ==
  {n \in DOMAIN log :
     /\ log[n].ev = "aoa"
     /\ \A m \in (n + 1)..Len(log) : log[m].ev = "glitch"}

\* The samples of the frame that log entry n completed.
FrameOf(n) == SubSeq(fed, log[n].at - FrameSize + 1, log[n].at)

\* C11: determinism.  The estimate written at a successful frame completion is
\* the vector sum of that frame's samples alone: the estimate held before, the
\* samples before the sync and the chunking have no part in it.
C11_Determinism ==
  \A n \in HeldFrames : self.lastAOA = FrameVector(log[n].at - FrameSize, 0)

\* C11's case: the same frame captured twice in one run, the second time with
\* another estimate held before it and other samples before its sync.
C11_Witness ==
  \E n \in HeldFrames :
    \E m \in 1..(n - 1) :
      /\ log[m].ev = "aoa"
      /\ FrameOf(m) = FrameOf(n)
      /\ self.lastAOA # <<0, 0>>
      /\ log[n].at - FrameSize > log[m].at

\* C12: teardown.  stop() on a block whose port was opened sends RFX, releases
\* the port and returns normally, whatever fails on the way.
C12_StopNeverRaises ==
  /\ "stop" \notin arduino.escaped
  /\ (arduino.pc = "stopped" /\ arduino.ser # "None") => arduino.ser = "closed"

\* C13: send_command never lets a serial failure out to its caller, so the
\* constructor's T, CYCLE sequence always completes.
C13_SendCommandNeverRaises ==
  /\ "send_command" \notin arduino.escaped
  /\ "__init__" \notin arduino.escaped

\* The members of a finite set of integers in increasing order.
RECURSIVE Ascending(_)
Ascending(S) ==
  IF S = {} THEN <<>> ELSE LET m == MinOf(S) IN <<m>> \o Ascending(S \ {m})

\* The frame positions counted so far that belong in antenna i's bin:
\* floor(q / samples_per_antenna) = i and q mod samples_per_antenna is past
\* the settling samples.
BinPositions(i) ==
  {q \in 0..(self.total_sample_counter - 1) :
     /\ self.samples_per_antenna > 0
     /\ q \div self.samples_per_antenna = i
     /\ q % self.samples_per_antenna >= self.settling_samp}

\* C14: frame binning.  Bin i holds exactly the frame positions counted so
\* far that belong to it, each once and in stream order, with the stream's
\* values, however the chunks fell; at a completion these are the positions
\* [i*spa + settling, (i+1)*spa).
C14_FrameBinning ==
  \A i \in Antennas :
    LET want == Ascending(BinPositions(i)) IN
    /\ concatenate(antenna_pos[i]) = want
    /\ want # <<>> =>
         raw_arrays(self)[i] = [k \in DOMAIN want |-> StreamAt(LastSyncAt + want[k])]
    /\ self.total_sample_counter = FrameSize =>
         BinPositions(i) = (i * self.samples_per_antenna + self.settling_samp)
                             ..((i + 1) * self.samples_per_antenna - 1)

\* C14's case: one chunk of three samples, right after the sync, cut across
\* the windows of three antennas.
C14_Witness ==
  /\ pc = "loop"
  /\ self.state = "CAPTURE_FRAME"
  /\ self.max_antennas = 4
  /\ self.samples_per_antenna = 1
  /\ self.total_sample_counter = 3
  /\ idx = 3
  /\ log = <<Event("sync", Base, 0)>>
  /\ \A i \in 0..2 : Len(self.antenna_data[i]) = 1

\* Where the search now under way started.
SearchStartNow == SearchStart(Len(log) + 1)

\* The offset in iq of the first sample at or above threshold from idx on.
FirstHigh == MinOf(high_indices(self, iq, idx))

\* C15: transient dip.  A searching step that meets a sample at or above
\* threshold after a silence run shorter than gap_threshold stays in
\* SEARCH_RFX, sets the silence counter to zero and resumes right after that
\* sample, which is consumed and not examined again.
C15_TransientDip ==
  [][(/\ pc = "loop"
      /\ idx < Len(iq)
      /\ self.state = "SEARCH_RFX"
      /\ high_indices(self, iq, idx) # {}
      /\ SilenceRun(Consumed + FirstHigh, SearchStartNow) < GapThreshold)
     => /\ self'.state = "SEARCH_RFX"
        /\ self'.counter = 0
        /\ idx' = idx + FirstHigh + 1
        /\ pc' = "loop"
        /\ self'.lastAOA = self.lastAOA
        /\ self'.antenna_data = self.antenna_data]_vars

\* C15's case: a dip of gap_threshold - 1 >= 1 silent samples was passed over
\* and the samples after its edge were consumed.
C15_Witness ==
  /\ GapThreshold >= 2
  /\ self.state = "SEARCH_RFX"
  /\ \E n \in DOMAIN log :
       /\ log[n].ev = "glitch"
       /\ SilenceRun(log[n].at, SearchStart(n)) = GapThreshold - 1
       /\ Consumed > log[n].at + 1

\* C16: silence counter across buffers.  Whenever the block is searching, the
\* counter is the number of consecutive below-threshold samples consumed since
\* the search started (construction or the last frame completion) or since
\* the last sample at or above threshold; a step over a rest of buffer with no
\* such sample therefore adds the whole rest and keeps searching.
C16_SilenceCounter ==
  self.state = "SEARCH_RFX" => self.counter = SilenceRun(Consumed, SearchStartNow)

\* C16's case: after a completed frame, a silence longer than any buffer has
\* been counted over several calls.
C16_Witness ==
  /\ pc = "idle"
  /\ self.state = "SEARCH_RFX"
  /\ self.counter > MaxBuf
  /\ \E n \in DOMAIN log : log[n].ev = "aoa"

\* A capture step that has the frame's last sample in reach.
CompletingStep ==
  /\ pc = "loop"
  /\ idx < Len(iq)
  /\ self.state = "CAPTURE_FRAME"
  /\ self.total_sample_counter + (Len(iq) - idx) >= FrameSize

\* C17 as stated: the step in which the frame-position counter reaches
\* frame_size leaves that counter at zero, the state SEARCH_RFX and the
\* silence counter at zero.
C17_CounterZeroAfterCompletion ==
  [][CompletingStep =>
       /\ self'.total_sample_counter = 0
       /\ self'.state = "SEARCH_RFX"
       /\ self'.counter = 0]_vars

\* C17 as amended: that step invokes calculate_aoa once and leaves the state
\* SEARCH_RFX and the silence counter at zero; the frame-position counter
\* stays at frame_size and it is the next sync that sets it to zero.
C17_FrameCompletion ==
  [][/\ CompletingStep =>
          /\ self'.state = "SEARCH_RFX"
          /\ self'.counter = 0
          /\ self'.total_sample_counter = FrameSize
          /\ Len(log) < LogCap =>
               /\ Len(log') = Len(log) + 1
               /\ log'[Len(log')].ev \in {"aoa", "skip"}
               /\ log'[Len(log')].p = FrameSize
     /\ (self.state = "SEARCH_RFX" /\ self'.state = "SEARCH_RFX") =>
          self'.total_sample_counter = self.total_sample_counter
     /\ (self.state = "SEARCH_RFX" /\ self'.state = "CAPTURE_FRAME") =>
          self'.total_sample_counter = 0]_vars

\* C17's case: a frame of several samples was completed, the search went on
\* with the counter still at frame_size, and a later sync started a new count.
C17_Witness ==
  /\ FrameSize >= 2
  /\ self.state = "CAPTURE_FRAME"
  /\ self.total_sample_counter = 1
  /\ \E n \in DOMAIN log :
       /\ log[n].ev = "aoa"
       /\ log[Len(log)].ev = "sync"
       /\ log[Len(log)].at > log[n].at

\* Samples consumed since the last sync, as stream values.
EpisodeValues ==
  {StreamAt(LastSyncAt + q) : q \in 0..(self.total_sample_counter - 1)}

\* C18: bins are per-frame.  Every step from SEARCH_RFX to CAPTURE_FRAME
\* leaves all bins empty and the frame-position counter at zero; and at all
\* times the bins together hold no more samples than were consumed since the
\* last sync, each of them a value consumed since that sync, and nothing
\* before the first sync.
C18_BinsPerFrame ==
  /\ [][(self.state = "SEARCH_RFX" /\ self'.state = "CAPTURE_FRAME") =>
          /\ \A i \in Antennas : self'.antenna_data[i] = <<>>
          /\ self'.total_sample_counter = 0]_vars
  /\ [](/\ (\A n \in DOMAIN log : log[n].ev # "sync") =>
             \A i \in Antennas : self.antenna_data[i] = <<>>
        /\ (Len(log) < LogCap /\ \E n \in DOMAIN log : log[n].ev = "sync") =>
             /\ \A i \in Antennas : \A k \in DOMAIN raw_arrays(self)[i] :
                  raw_arrays(self)[i][k] \in EpisodeValues
             /\ \A i \in Antennas :
                  Len(raw_arrays(self)[i]) <=
                    Min2(self.total_sample_counter, self.samples_per_antenna))

\* C18's case: a second frame completed with an estimate, after an earlier
\* completed frame whose samples differ from it.
C18_Witness ==
  /\ pc = "idle"
  /\ self.state = "SEARCH_RFX"
  /\ Len(log) >= 4
  /\ log[Len(log)].ev = "aoa"
  /\ \E m \in 1..(Len(log) - 1) :
       /\ log[m].ev = "aoa"
       /\ FrameOf(m) # FrameOf(Len(log))
  /\ \A i \in Antennas : Len(raw_arrays(self)[i]) = self.samples_per_antenna - self.settling_samp

\* Entries of the log that record a frame completion.
Completions == {n \in DOMAIN log : log[n].ev \in {"aoa", "skip"}}

\* C19: all-or-none bins.  When the frame-position counter stands at
\* frame_size every bin holds samples_per_antenna - settling_samp samples, or
\* none when that is not positive, so the bins are all empty or all
\* non-empty; a completion is discarded exactly when settling_samp >=
\* samples_per_antenna, and then the estimate is 0+0j in every state and in
\* every output written.
C19_AllOrNone ==
  /\ self.total_sample_counter = FrameSize =>
       /\ \A i \in Antennas :
            Len(raw_arrays(self)[i]) =
              Max2(self.samples_per_antenna - self.settling_samp, 0)
       /\ \/ \A i \in Antennas : raw_arrays(self)[i] = <<>>
          \/ \A i \in Antennas : raw_arrays(self)[i] # <<>>
  /\ \A n \in Completions :
       log[n].ev = "skip" <=> self.settling_samp >= self.samples_per_antenna
  /\ self.settling_samp >= self.samples_per_antenna =>
       /\ self.lastAOA = <<0, 0>>
       /\ \A k \in DOMAIN held : held[k] = <<0, 0>>
       /\ \A k \in DOMAIN out : out[k] = <<0, 0>>

\* C19's case: a frame of several antennas with a settling window shorter
\* than the dwell has just completed and updated the estimate.
C19_Witness ==
  /\ pc = "idle"
  /\ self.state = "SEARCH_RFX"
  /\ self.max_antennas >= 2
  /\ self.settling_samp >= 1
  /\ self.settling_samp < self.samples_per_antenna
  /\ self.total_sample_counter = FrameSize
  /\ Completions # {}
  /\ log[Len(log)].ev = "aoa"
  /\ self.lastAOA # <<0, 0>>

\* C19's other case: a frame whose settling window covers the whole dwell was
\* completed and discarded.
C19_WitnessDiscarded ==
  /\ self.samples_per_antenna >= 1
  /\ self.settling_samp >= self.samples_per_antenna
  /\ \E n \in Completions : log[n].ev = "skip"

\* ------------------------------------------------------- input buffer reuse
\* Line 195 appends chunk[slice_start:slice_end], a numpy view of the caller's
\* input buffer, and calculate_aoa reads the views at line 212 when the frame
\* completes.  Between two work() calls the caller may write into a buffer it
\* delivered earlier; a binned sample of an earlier call then reads as
\* whatever was written.
CallerOverwrites ==
  /\ pc = "idle"
  /\ self.state = "CAPTURE_FRAME"
  /\ \E i \in 0..(self.max_antennas - 1) :
       \E c \in DOMAIN self.antenna_data[i] :
         \E k \in DOMAIN self.antenna_data[i][c] :
           \E v \in Samples :
             /\ v # self.antenna_data[i][c][k]
             /\ self' = [self EXCEPT !.antenna_data[i][c][k] = v]
  /\ UNCHANGED <<pc, iq, out, idx, fed, log, held, antenna_pos, arduino>>

NextAlias ==
  \/ WorkCall
  \/ SearchSilence
  \/ SearchSync
  \/ SearchGlitch
  \/ CaptureMid
  \/ CaptureComplete
  \/ WorkReturn
  \/ CallerOverwrites

SpecAlias == Init /\ [][NextAlias]_vars

\* C20: bin contents are stable sample values.  Whatever the caller does with
\* a buffer after the work() call that delivered it has returned, every
\* binned sample has the value it was delivered with, so the estimator sums
\* delivered values.
C20_BinsKeepDeliveredValues ==
  Len(log) < LogCap =>
    \A i \in Antennas :
      LET pos == concatenate(antenna_pos[i])
          dat == raw_arrays(self)[i]
      IN \A k \in DOMAIN dat : dat[k] = StreamAt(LastSyncAt + pos[k])

====
